---------------------------- MODULE Spec2Model ----------------------------
(***************************************************************************)
(* A model of the canonical byte codec (RLP) and of the Merkle Patricia    *)
(* Trie engine of ejit-evm:                                                *)
(*   src/src/ethereum/ethereum_rlp/rlp.rs                                  *)
(*   src/src/ethereum/cancun/trie.rs                                       *)
(*   src/src/ethereum/ethereum_types/bytes.rs                              *)
(*   src/src/ethereum/crypto/hash.rs                                       *)
(*                                                                         *)
(* Byte strings (Bytes, Verbatim, &[u8], [u8; N]) are sequences of         *)
(* integers in 0..255.  A BTreeMap is a function whose domain is the set   *)
(* of its keys; its iteration order is the ascending order of the keys     *)
(* (lexicographic on Vec<u8>).                                             *)
(***************************************************************************)
EXTENDS Integers, Sequences, FiniteSets, TLC

VARIABLES
    secured,        \* Trie::secured
    default_value,  \* Trie::default_value
    data,           \* Trie::data of the trie under test
    data2,          \* Trie::data of a second trie with the same flag and default
    last,           \* per key: the value of the most recent set on `data` (history)
    last2,          \* per key: the value of the most recent set on `data2` (history)
    first_key,      \* key of the first set call on `data` (history; <<>> before it)
    without,        \* per key k: the trie built by the same set calls, those on k left out
    op,             \* the last call made on the trie under test, with its result
    written,        \* codec: the last encode call (type, value, buffer before the call)
    buffer,         \* codec: the output buffer of encode
    cursor,         \* codec: the input slice of decode
    decoded,        \* codec: the last decode call with its result
    pc,             \* codec: position of the encode/decode driver
    overflow_checks \* codec: the build panics on integer overflow (debug profile)

vars == <<secured, default_value, data, data2, last, last2, first_key, without, op,
          written, buffer, cursor, decoded, pc, overflow_checks>>

trie_vars == <<secured, default_value, data, data2, last, last2, first_key,
               without, op>>
codec_vars == <<written, buffer, cursor, decoded, pc, overflow_checks>>

-----------------------------------------------------------------------------
(* Byte-string helpers                                                     *)

Byte == 0..255

\* n copies of byte b
Fill(n, b) == [i \in 1..n |-> b]

\* s[from..] of Rust (0-based `from`), as a sequence
SliceFrom(s, from) == SubSeq(s, from + 1, Len(s))

\* s[from..to] of Rust (0-based, `to` exclusive)
Slice(s, from, to) == SubSeq(s, from + 1, to)

MinOf(S) == CHOOSE x \in S : \A y \in S : x <= y

\* Ord for Vec<u8>: lexicographic, a proper prefix is smaller
RECURSIVE LexLess(_, _)
LexLess(a, b) ==
    IF Len(b) = 0 THEN FALSE
    ELSE IF Len(a) = 0 THEN TRUE
    ELSE IF a[1] # b[1] THEN a[1] < b[1]
    ELSE LexLess(Tail(a), Tail(b))

LexMin(S) == CHOOSE x \in S : \A y \in S : x = y \/ LexLess(x, y)
LexMax(S) == CHOOSE x \in S : \A y \in S : x = y \/ LexLess(y, x)

-----------------------------------------------------------------------------
(* keccak256 (crypto/hash.rs).  The permutation itself lives in the        *)
(* tiny_keccak crate; it is modelled as a deterministic function from a    *)
(* byte string to a 32-byte digest: two 16-bit lanes, each a sum over the  *)
(* input bytes weighted by their position, together with the length.       *)

LaneA(s, i) == ((s[i] + 1) * (i * i + 1)) % 65521
LaneB(s, i) == ((s[i] + 1) * (s[i] + 3) * (7 * i + 1)) % 65519

\* sum of the lane terms of s[lo..hi], by halving
RECURSIVE AbsorbA(_, _, _)
AbsorbA(s, lo, hi) ==
    IF lo > hi THEN 0
    ELSE IF lo = hi THEN LaneA(s, lo)
    ELSE LET mid == (lo + hi) \div 2
         IN  (AbsorbA(s, lo, mid) + AbsorbA(s, mid + 1, hi)) % 65521

RECURSIVE AbsorbB(_, _, _)
AbsorbB(s, lo, hi) ==
    IF lo > hi THEN 0
    ELSE IF lo = hi THEN LaneB(s, lo)
    ELSE LET mid == (lo + hi) \div 2
         IN  (AbsorbB(s, lo, mid) + AbsorbB(s, mid + 1, hi)) % 65519

keccak256(buf) ==
    LET a == (((AbsorbA(buf, 1, Len(buf)) + 7 * Len(buf) + 13) % 65521) * 25173) % 65521
        b == (((AbsorbB(buf, 1, Len(buf)) + 11 * Len(buf) + 17) % 65519) * 13849) % 65519
    IN  [i \in 1..32 |->
            CASE i % 4 = 1 -> (a + (i \div 4)) % 256
              [] i % 4 = 2 -> ((a \div 256) + (i \div 4)) % 256
              [] i % 4 = 3 -> (b + (i \div 4)) % 256
              [] OTHER     -> ((b \div 256) + (i \div 4)) % 256]

-----------------------------------------------------------------------------
(* RLP encode (ethereum_rlp/rlp.rs)                                        *)

\* usize::to_be_bytes with the leading zero bytes removed (n > 0)
RECURSIVE LenAsBe(_)
LenAsBe(n) == IF n < 256 THEN <<n>> ELSE Append(LenAsBe(n \div 256), n % 256)

\* encode_bytes with the short form kept up to and including 56 bytes
encode_bytes_short_56(buf, raw_bytes) ==
    LET len_raw_data == Len(raw_bytes) IN
    IF len_raw_data = 1 /\ raw_bytes[1] < 128 THEN
        Append(buf, raw_bytes[1])
    ELSE IF len_raw_data <= 56 THEN
        Append(buf, 128 + len_raw_data) \o raw_bytes
    ELSE
        LET len_raw_data_as_be == LenAsBe(len_raw_data) IN
        Append(buf, 183 + Len(len_raw_data_as_be)) \o len_raw_data_as_be \o raw_bytes

\* encode_bytes(buffer, raw_bytes): the buffer after the call
encode_bytes(buf, raw_bytes) ==
    LET len_raw_data == Len(raw_bytes) IN
    IF len_raw_data = 1 /\ raw_bytes[1] < 128 THEN
        Append(buf, raw_bytes[1])
    ELSE IF len_raw_data < 56 THEN
        Append(buf, 128 + len_raw_data) \o raw_bytes
    ELSE
        LET len_raw_data_as_be == LenAsBe(len_raw_data) IN
        Append(buf, 183 + Len(len_raw_data_as_be)) \o len_raw_data_as_be \o raw_bytes

\* encode_joined_encodings with the short form kept up to and including 56 bytes
encode_joined_encodings_short_56(dest, joined_encodings) ==
    LET len_joined_encodings == Len(joined_encodings) IN
    IF len_joined_encodings <= 56 THEN
        Append(dest, 192 + len_joined_encodings) \o joined_encodings
    ELSE
        LET len_as_be == LenAsBe(len_joined_encodings) IN
        Append(dest, 247 + Len(len_as_be)) \o len_as_be \o joined_encodings

\* encode_joined_encodings(dest, joined_encodings): dest after the call
encode_joined_encodings(dest, joined_encodings) ==
    LET len_joined_encodings == Len(joined_encodings) IN
    IF len_joined_encodings < 56 THEN
        Append(dest, 192 + len_joined_encodings) \o joined_encodings
    ELSE
        LET len_as_be == LenAsBe(len_joined_encodings) IN
        Append(dest, 247 + Len(len_as_be)) \o len_as_be \o joined_encodings

\* <Verbatim as Extended>::encode: the blob is spliced unmodified
Verbatim_encode(buf, v) == buf \o v

\* bytes[first_nz..]: the leading zero bytes removed
RECURSIVE StripLeadingZeros(_)
StripLeadingZeros(bytes) ==
    IF Len(bytes) = 0 THEN bytes
    ELSE IF bytes[1] # 0 THEN bytes
    ELSE StripLeadingZeros(Tail(bytes))

\* size_of of the fixed-width types that decode through decode_to_bytes
FixedSize(ty) ==
    CASE ty = "bool" -> 1
      [] ty = "U64" -> 8
      [] ty = "Bytes8" -> 8
      [] ty = "Bytes256" -> 256
      [] ty = "Uint" -> 16
      [] ty = "Address" -> 20
      [] OTHER -> 32       \* U256, Bytes32, Hash32, Root, VersionedHash

\* <T as Extended>::encode for the types without members.  A value is the
\* type's bytes: to_be_bytes() of an integer, the array of a fixed-width byte
\* type, the content of Bytes and String, <<0>> or <<1>> for a bool.
scalar_encode(ty, v, buf) ==
    CASE ty = "bool" ->
            IF v # <<0>> THEN encode_bytes(buf, <<1>>) ELSE encode_bytes(buf, <<>>)
      [] ty \in {"Uint", "U64", "U256", "Bytes32", "Address"} ->
            encode_bytes(buf, StripLeadingZeros(v))
      [] OTHER -> encode_bytes(buf, v)     \* Bytes, String, Hash32, Root, Bytes8,
                                           \* Bytes256, VersionedHash

\* join_encodings(raw_sequence): members[i] is encoded as type tys[i]
RECURSIVE join_encodings(_, _, _, _)
join_encodings(tys, members, i, res) ==
    IF i > Len(members) THEN res
    ELSE join_encodings(tys, members, i + 1, scalar_encode(tys[i], members[i], res))

\* encode_sequence(dest, raw_sequence)
encode_sequence(dest, tys, members) ==
    encode_joined_encodings(dest, join_encodings(tys, members, 1, <<>>))

\* the values of Option<T>
None == [some |-> FALSE, val |-> <<>>]
Some(t) == [some |-> TRUE, val |-> t]

\* <Option<T> as Extended>::encode with None written as the empty byte string
Option_encode_none_as_empty(ty, opt, buf) ==
    IF opt.some THEN scalar_encode(ty, opt.val, buf) ELSE encode_bytes(buf, <<>>)

\* <Option<T> as Extended>::encode
Option_encode(ty, opt, buf) ==
    IF opt.some THEN scalar_encode(ty, opt.val, buf) ELSE buf

\* the shape of an Extended value: a type without members, a tuple of such
\* types, a Vec of one such type, or an Option of one such type
Scalar(ty) == [kind |-> "scalar", tys |-> <<ty>>]
Tuple(tys) == [kind |-> "tuple", tys |-> tys]
Vec(ty) == [kind |-> "vec", tys |-> <<ty>>]
OptionOf(ty) == [kind |-> "option", tys |-> <<ty>>]

\* <T as Extended>::encode: val is the sequence of the value's members (the
\* value itself, alone, for a type without members)
Extended_encode(shape, val, buf) ==
    CASE shape.kind = "scalar" -> scalar_encode(shape.tys[1], val[1], buf)
      [] shape.kind = "tuple" -> encode_sequence(buf, shape.tys, val)
      [] shape.kind = "option" -> Option_encode(shape.tys[1], val[1], buf)
      [] OTHER -> encode_sequence(buf, [i \in 1..Len(val) |-> shape.tys[1]], val)


\* A value whose members are sequences themselves (a tuple or Vec of tuples
\* and Vecs): a tree, its leaves byte strings
ItemBytes(bytes) == [kind |-> "bytes", bytes |-> bytes, items |-> <<>>]
ItemList(items) == [kind |-> "list", bytes |-> <<>>, items |-> items]

\* <T as Extended>::encode of such a value: encode_bytes for a leaf, for a
\* sequence encode_sequence over its members, each through its own encode
RECURSIVE Item_encode(_, _)
RECURSIVE join_item_encodings(_, _, _)
join_item_encodings(items, i, res) ==
    IF i > Len(items) THEN res
    ELSE join_item_encodings(items, i + 1, Item_encode(items[i], res))

Item_encode(item, buf) ==
    IF item.kind = "bytes" THEN encode_bytes(buf, item.bytes)
    ELSE encode_joined_encodings(buf, join_item_encodings(item.items, 1, <<>>))

-----------------------------------------------------------------------------
(* RLP decode (ethereum_rlp/rlp.rs)                                        *)

\* stand-in for a declared length of four bytes or more (at least 2^24):
\* larger than every buffer and every destination of the model
HugeLen == 1073741824

\* decode_length(src), src[0] # 0: the big-endian value of the length field
RECURSIVE BeValue(_)
BeValue(src) ==
    IF Len(src) = 0 THEN 0
    ELSE 256 * BeValue(SubSeq(src, 1, Len(src) - 1)) + src[Len(src)]

decode_length(src) == IF Len(src) <= 3 THEN BeValue(src) ELSE HugeLen

\* start + len exceeds the 64-bit usize: an 8-byte length field close to 2^64
AddOverflows(start, field) ==
    /\ Len(field) = 8
    /\ \A i \in 1..7 : field[i] = 255
    /\ field[8] >= 256 - start

\* start + len modulo 2^64 when AddOverflows(start, field)
WrappedEnd(start, field) == field[8] + start - 256

DecOk(dest, rest) == [tag |-> "Ok", dest |-> dest, rest |-> rest, n |-> 0]
DecodingError(dest, rest) == [tag |-> "DecodingError", dest |-> dest, rest |-> rest, n |-> 0]
DestTooSmall(dest, rest, n) == [tag |-> "DestTooSmall", dest |-> dest, rest |-> rest, n |-> n]
\* a panic: the call does not return
DecAbort(dest, rest) == [tag |-> "Abort", dest |-> dest, rest |-> rest, n |-> 0]

\* dest[dest_len - len..].copy_from_slice(raw) on a zero-filled destination
RightJustify(dest_len, raw) == Fill(dest_len - Len(raw), 0) \o raw

\* decode_to_bytes without the rejection of a wrapped single byte below 0x80
decode_to_bytes_lenient(buf, dest_len, checks) ==
    LET zero == Fill(dest_len, 0) IN
    IF Len(buf) = 0 \/ buf[1] > 191 THEN DecodingError(zero, buf)
    ELSE IF buf[1] <= 128 THEN
        IF dest_len < 1 THEN DestTooSmall(zero, buf, 1)
        ELSE DecOk(RightJustify(dest_len, <<buf[1]>>), SliceFrom(buf, 1))
    ELSE IF buf[1] <= 183 THEN
        LET len_raw_data == buf[1] - 128 IN
        IF len_raw_data >= Len(buf) THEN DecodingError(zero, buf)
        ELSE IF len_raw_data > dest_len THEN DestTooSmall(zero, buf, len_raw_data)
        ELSE DecOk(RightJustify(dest_len, Slice(buf, 1, 1 + len_raw_data)),
                   SliceFrom(buf, 1 + len_raw_data))
    ELSE DecodingError(zero, buf)

\* decode_to_bytes(buffer, dest): the outcome, the destination and the cursor
\* after the call.  checks: the build panics on integer overflow.
decode_to_bytes(buf, dest_len, checks) ==
    LET zero == Fill(dest_len, 0) IN
    IF Len(buf) = 0 \/ buf[1] > 191 THEN DecodingError(zero, buf)
    ELSE IF buf[1] <= 128 THEN
        IF dest_len < 1 THEN DestTooSmall(zero, buf, 1)
        ELSE DecOk(RightJustify(dest_len, <<buf[1]>>), SliceFrom(buf, 1))
    ELSE IF buf[1] <= 183 THEN
        LET len_raw_data == buf[1] - 128 IN
        IF len_raw_data >= Len(buf) THEN DecodingError(zero, buf)
        ELSE IF len_raw_data > dest_len THEN DestTooSmall(zero, buf, len_raw_data)
        ELSE
            LET raw_data == Slice(buf, 1, 1 + len_raw_data) IN
            IF len_raw_data = 1 /\ raw_data[1] < 128 THEN DecodingError(zero, buf)
            ELSE DecOk(RightJustify(dest_len, raw_data), SliceFrom(buf, 1 + len_raw_data))
    ELSE
        LET decoded_data_start_idx == 1 + buf[1] - 183 IN
        IF decoded_data_start_idx - 1 >= Len(buf) THEN DecodingError(zero, buf)
        ELSE IF buf[2] = 0 THEN DecodingError(zero, buf)
        ELSE
            LET field == Slice(buf, 1, decoded_data_start_idx)
                len_decoded_data == decode_length(field)
            IN
            IF len_decoded_data < 56 THEN DecodingError(zero, buf)
            ELSE IF AddOverflows(decoded_data_start_idx, field) THEN
                IF checks THEN DecAbort(zero, buf)
                ELSE IF WrappedEnd(decoded_data_start_idx, field) = 0
                     THEN DecodingError(zero, buf)
                ELSE DestTooSmall(zero, buf, len_decoded_data)
            ELSE
                LET decoded_data_end_idx == decoded_data_start_idx + len_decoded_data IN
                IF decoded_data_end_idx - 1 >= Len(buf) THEN DecodingError(zero, buf)
                ELSE IF len_decoded_data > dest_len
                     THEN DestTooSmall(zero, buf, len_decoded_data)
                ELSE DecOk(RightJustify(dest_len,
                               Slice(buf, decoded_data_start_idx, decoded_data_end_idx)),
                           SliceFrom(buf, decoded_data_end_idx))

\* find_joined_encodings(buffer): dest is the slice of the joined encodings
find_joined_encodings(buf, checks) ==
    IF Len(buf) = 0 \/ buf[1] <= 191 THEN DecodingError(<<>>, buf)
    ELSE IF buf[1] <= 247 THEN
        LET len_joined_encodings == buf[1] - 192 IN
        IF len_joined_encodings >= Len(buf) THEN DecodingError(<<>>, buf)
        ELSE DecOk(Slice(buf, 1, 1 + len_joined_encodings),
                   SliceFrom(buf, 1 + len_joined_encodings))
    ELSE IF buf[1] = 255 /\ checks THEN DecAbort(<<>>, buf)   \* 1 + 0xFF in u8
    ELSE
        LET joined_encodings_start_idx == 1 + buf[1] - 247 IN
        IF joined_encodings_start_idx - 1 >= Len(buf) THEN DecodingError(<<>>, buf)
        ELSE IF buf[2] = 0 THEN DecodingError(<<>>, buf)
        ELSE
            LET field == Slice(buf, 1, joined_encodings_start_idx)
                len_joined_encodings == decode_length(field)
            IN
            IF len_joined_encodings < 56 THEN DecodingError(<<>>, buf)
            ELSE IF AddOverflows(joined_encodings_start_idx, field) THEN
                IF checks THEN DecAbort(<<>>, buf)
                ELSE IF WrappedEnd(joined_encodings_start_idx, field) = 0
                     THEN DecodingError(<<>>, buf)
                ELSE DecAbort(<<>>, buf)        \* slice start beyond slice end
            ELSE
                LET joined_encodings_end_idx ==
                        joined_encodings_start_idx + len_joined_encodings
                IN
                IF joined_encodings_end_idx - 1 >= Len(buf) THEN DecodingError(<<>>, buf)
                ELSE DecOk(Slice(buf, joined_encodings_start_idx, joined_encodings_end_idx),
                           SliceFrom(buf, joined_encodings_end_idx))

\* the outcome of <T as Extended>::decode: the value decoded (on Ok) and the
\* cursor after the call
Decoded(tag, val, rest, n) == [tag |-> tag, val |-> val, rest |-> rest, n |-> n]

\* the outcome of a decode_to_bytes call as that of the decode around it
AsDecoded(r) == Decoded(r.tag, r.dest, r.rest, r.n)

\* decode of Uint, U64, U256, Bytes32, Address, Hash32, Root
fixed_decode(ty, buf, checks) ==
    AsDecoded(decode_to_bytes(buf, FixedSize(ty), checks))

\* <bool as Extended>::decode after its decode_to_bytes call returned r
bool_checked(r) ==
    IF r.tag # "Ok" THEN Decoded(r.tag, <<0>>, r.rest, r.n)
    ELSE IF r.dest[1] > 1 THEN Decoded("DecodingError", <<0>>, r.rest, 0)
    ELSE Decoded("Ok", <<IF r.dest[1] # 0 THEN 1 ELSE 0>>, r.rest, 0)

\* <bool as Extended>::decode
bool_decode(buf, checks) == bool_checked(decode_to_bytes(buf, 1, checks))

\* <Bytes as Extended>::decode after decode_to_bytes on an empty destination
\* returned r: the match on its result
Bytes_resized(r, buf, checks) ==
    IF r.tag = "Ok" THEN Decoded("Ok", <<>>, r.rest, 0)
    ELSE IF r.tag = "DestTooSmall" THEN
        IF r.n = HugeLen THEN Decoded("Abort", <<>>, buf, 0)   \* resize beyond isize::MAX
        ELSE AsDecoded(decode_to_bytes(buf, r.n, checks))
    ELSE Decoded(r.tag, <<>>, r.rest, r.n)

\* <Bytes as Extended>::decode
Bytes_decode(buf, checks) == Bytes_resized(decode_to_bytes(buf, 0, checks), buf, checks)

\* String::from_utf8 accepts the bytes.  The strings of the model are ASCII;
\* a byte of 0x80 or more is taken to start no well-formed sequence.
IsUtf8(bytes) == \A i \in 1..Len(bytes) : bytes[i] < 128

\* <String as Extended>::decode after b.decode(buffer) returned b
String_checked(b) ==
    IF b.tag # "Ok" THEN Decoded(b.tag, <<>>, b.rest, b.n)
    ELSE IF ~IsUtf8(b.val) THEN Decoded("DecodingError", <<>>, b.rest, 0)
    ELSE b

\* <String as Extended>::decode
String_decode(buf, checks) == String_checked(Bytes_decode(buf, checks))

\* <T as Extended>::decode for the types without members
scalar_decode(ty, buf, checks) ==
    CASE ty = "bool" -> bool_decode(buf, checks)
      [] ty = "Bytes" -> Bytes_decode(buf, checks)
      [] ty = "String" -> String_decode(buf, checks)
      [] OTHER -> fixed_decode(ty, buf, checks)

\* one turn of a decoding loop: the error of the member's decode call (the ?
\* operator), or the loop's outcome with the member's value put in front
MemberDone(d, more) ==
    IF d.tag # "Ok" THEN Decoded(d.tag, <<>>, d.rest, d.n)
    ELSE IF more.tag # "Ok" THEN more
    ELSE Decoded("Ok", <<d.val>> \o more.val, more.rest, 0)

\* the cursor a decoding loop goes on with after a member's decode call; no
\* bytes are left to a loop that has ended with an error
RestAfter(d) == IF d.tag = "Ok" THEN d.rest ELSE <<>>

\* decode_joined_encodings(joined_encodings, dest): dest[i] has type tys[i]
RECURSIVE decode_joined_encodings(_, _, _, _)
decode_joined_encodings(joined, tys, i, checks) ==
    IF i > Len(tys) THEN Decoded("Ok", <<>>, joined, 0)
    ELSE MemberDone(scalar_decode(tys[i], joined, checks),
                    decode_joined_encodings(scalar_decode(tys[i], joined, checks).rest,
                                            tys, i + 1, checks))

\* SequenceDone with the cursor left where the members' decoding ended
SequenceDone_members_cursor(m, rest) ==
    IF m.tag # "Ok" THEN Decoded(m.tag, <<>>, rest, m.n)
    ELSE Decoded("Ok", m.val, m.rest, 0)

\* the outcome of a sequence decode: that of the members, the cursor past the
\* whole sequence
SequenceDone(m, rest) ==
    IF m.tag # "Ok" THEN Decoded(m.tag, <<>>, rest, m.n)
    ELSE Decoded("Ok", m.val, rest, 0)

\* decode_to_sequence(encoded_sequence, dest)
decode_to_sequence(buf, tys, checks) ==
    LET f == find_joined_encodings(buf, checks) IN
    IF f.tag # "Ok" THEN Decoded(f.tag, <<>>, f.rest, 0)
    ELSE SequenceDone(decode_joined_encodings(f.dest, tys, 1, checks), f.rest)

\* the loop of <Vec<T> as Extended>::decode: decode and push until the joined
\* encodings are used up
RECURSIVE decode_members(_, _, _)
decode_members(joined, ty, checks) ==
    IF Len(joined) = 0 THEN Decoded("Ok", <<>>, joined, 0)
    ELSE MemberDone(scalar_decode(ty, joined, checks),
                    decode_members(RestAfter(scalar_decode(ty, joined, checks)),
                                   ty, checks))

\* <Vec<T> as Extended>::decode into an empty vector
Vec_decode(ty, buf, checks) ==
    LET f == find_joined_encodings(buf, checks) IN
    IF f.tag # "Ok" THEN Decoded(f.tag, <<>>, f.rest, 0)
    ELSE SequenceDone(decode_members(f.dest, ty, checks), f.rest)

\* the value of a type without members as the sequence of its one member
Alone(d) ==
    IF d.tag = "Ok" THEN Decoded("Ok", <<d.val>>, d.rest, 0)
    ELSE Decoded(d.tag, <<>>, d.rest, d.n)

\* <Option<T> as Extended>::decode after t.decode(buffer) returned d
Option_some(d) ==
    IF d.tag = "Ok" THEN Decoded("Ok", <<Some(d.val)>>, d.rest, 0)
    ELSE Decoded(d.tag, <<>>, d.rest, d.n)

\* <Option<T> as Extended>::decode
Option_decode(ty, buf, checks) ==
    IF Len(buf) = 0 THEN Decoded("Ok", <<None>>, buf, 0)
    ELSE Option_some(scalar_decode(ty, buf, checks))

\* <T as Extended>::decode into a default value of the shape; val as for
\* Extended_encode, <<>> when the call fails
Extended_decode(shape, buf, checks) ==
    CASE shape.kind = "scalar" -> Alone(scalar_decode(shape.tys[1], buf, checks))
      [] shape.kind = "tuple" -> decode_to_sequence(buf, shape.tys, checks)
      [] shape.kind = "option" -> Option_decode(shape.tys[1], buf, checks)
      [] OTHER -> Vec_decode(shape.tys[1], buf, checks)

\* decode_to after T::decode(&mut res, &mut encoded_data) returned d: bytes
\* left in the input are an error
decode_to_checked(d) ==
    IF d.tag # "Ok" THEN d
    ELSE IF d.rest # <<>> THEN Decoded("DecodingError", <<>>, d.rest, 0)
    ELSE d

\* decode_to::<T>(encoded_data)
decode_to(shape, encoded_data, checks) ==
    IF Len(encoded_data) <= 0 THEN Decoded("DecodingError", <<>>, encoded_data, 0)
    ELSE decode_to_checked(Extended_decode(shape, encoded_data, checks))

-----------------------------------------------------------------------------
(* Trie helpers (cancun/trie.rs)                                           *)

\* <Bytes as Key>::get_bytes: the key's canonical bytes
get_bytes(key) == key

\* <Bytes as Value>::encode_node: the value's own encoding in a fresh buffer
encode_node(value) == encode_bytes(<<>>, value)

\* common_prefix_length that stops after the first position
common_prefix_length_at_most_one(a, b) ==
    IF Len(a) = 0 \/ Len(b) = 0 THEN 0
    ELSE IF a[1] # b[1] THEN 0
    ELSE 1

\* common_prefix_length(a, b)
RECURSIVE common_prefix_length(_, _)
common_prefix_length(a, b) ==
    IF Len(a) = 0 \/ Len(b) = 0 THEN 0
    ELSE IF a[1] # b[1] THEN 0
    ELSE 1 + common_prefix_length(Tail(a), Tail(b))

\* the loop `for i in (start..x.len()).step_by(2)` pushing 16 * x[i] + x[i + 1]
\* (i is 0-based)
RECURSIVE PackPairs(_, _)
PackPairs(x, i) ==
    IF i >= Len(x) THEN <<>>
    ELSE <<(16 * x[i + 1] + x[i + 2]) % 256>> \o PackPairs(x, i + 2)

\* nibble_list_to_compact without the parity bit in the flag nibble
nibble_list_to_compact_no_parity(x, is_leaf) ==
    LET leaf_bit == IF is_leaf THEN 1 ELSE 0 IN
    IF Len(x) % 2 = 0 THEN
        <<16 * (2 * leaf_bit)>> \o PackPairs(x, 0)
    ELSE
        <<16 * (2 * leaf_bit) + x[1]>> \o PackPairs(x, 1)

\* nibble_list_to_compact(x, is_leaf)
nibble_list_to_compact(x, is_leaf) ==
    LET leaf_bit == IF is_leaf THEN 1 ELSE 0 IN
    IF Len(x) % 2 = 0 THEN
        <<16 * (2 * leaf_bit)>> \o PackPairs(x, 0)
    ELSE
        <<16 * ((2 * leaf_bit) + 1) + x[1]>> \o PackPairs(x, 1)

\* bytes_to_nibble_list with the low nibble of every byte put first
bytes_to_nibble_list_low_first(bytes_) ==
    [i \in 1..(2 * Len(bytes_)) |->
        IF i % 2 = 1 THEN bytes_[(i + 1) \div 2] % 16
        ELSE bytes_[i \div 2] \div 16]

\* bytes_to_nibble_list(bytes_)
bytes_to_nibble_list(bytes_) ==
    [i \in 1..(2 * Len(bytes_)) |->
        IF i % 2 = 1 THEN bytes_[(i + 1) \div 2] \div 16
        ELSE bytes_[i \div 2] % 16]

\* InternalNode values
NoneNode == [kind |-> "None"]
LeafNode(rest_of_key, value) ==
    [kind |-> "LeafNode", rest_of_key |-> rest_of_key, value |-> value]
ExtensionNode(key_segment, subnode) ==
    [kind |-> "ExtensionNode", key_segment |-> key_segment, subnode |-> subnode]
BranchNode(subnodes, value) ==
    [kind |-> "BranchNode", subnodes |-> subnodes, value |-> value]
\* a slice or an index out of range while the node was being built
AbortedNode == [kind |-> "Aborted"]

\* encode of the pair (Bytes, Verbatim): encode_sequence over the two members
encode_pair(buf, first, second) ==
    encode_joined_encodings(buf, Verbatim_encode(encode_bytes(<<>>, first), second))

\* the loop over node.subnodes taken from the last bucket to the first
RECURSIVE JoinSubnodes_reversed(_, _)
JoinSubnodes_reversed(subnodes, i) ==
    IF i > Len(subnodes) THEN <<>>
    ELSE JoinSubnodes_reversed(subnodes, i + 1) \o subnodes[i]

\* the loop `for s in node.subnodes { joined_encodings.extend(s.0) }`
RECURSIVE JoinSubnodes(_, _)
JoinSubnodes(subnodes, i) ==
    IF i > Len(subnodes) THEN <<>>
    ELSE subnodes[i] \o JoinSubnodes(subnodes, i + 1)

\* encode_internal_node, first half: the `encoded` buffer before the size rule
node_encoded(node) ==
    CASE node.kind = "LeafNode" ->
            encode_pair(<<>>, nibble_list_to_compact(node.rest_of_key, TRUE), node.value)
      [] node.kind = "ExtensionNode" ->
            encode_pair(<<>>, nibble_list_to_compact(node.key_segment, FALSE), node.subnode)
      [] node.kind = "BranchNode" ->
            encode_joined_encodings(<<>>,
                Verbatim_encode(JoinSubnodes(node.subnodes, 1), node.value))
      [] OTHER -> <<128>>

\* encode_internal_node that returns the bare digest whatever rlp_the_hash is
encode_internal_node_bare_hash(node, rlp_the_hash) ==
    IF Len(node_encoded(node)) < 32 THEN node_encoded(node)
    ELSE keccak256(node_encoded(node))

\* encode_internal_node(self, rlp_the_hash)
encode_internal_node(node, rlp_the_hash) ==
    LET encoded == node_encoded(node) IN
    IF Len(encoded) < 32 THEN encoded
    ELSE IF rlp_the_hash THEN encode_bytes(<<>>, keccak256(encoded))
    ELSE keccak256(encoded)

\* Trie::prepare_trie: the nibble-keyed map.  An insert of a nibble key that is
\* already present replaces its value, so the entry of the greatest key wins.
prepare_trie(sec, d) ==
    LET NibKey(key) ==
            bytes_to_nibble_list(IF sec THEN keccak256(get_bytes(key)) ELSE get_bytes(key))
        nibs == {NibKey(key) : key \in DOMAIN d}
    IN  [n \in nibs |->
            encode_node(d[LexMax({key \in DOMAIN d : NibKey(key) = n})])]

\* the keys of a BTreeMap<Bytes, _> in the order its iterator yields them
RECURSIVE BTreeMap_keys(_)
BTreeMap_keys(keys) ==
    IF keys = {} THEN <<>>
    ELSE <<LexMin(keys)>> \o BTreeMap_keys(keys \ {LexMin(keys)})

\* patricialize_skips_nibble whose call below an Extension skips one nibble more than the
\* shared prefix
RECURSIVE patricialize_skips_nibble(_, _)
patricialize_skips_nibble(obj, level) ==
    IF DOMAIN obj = {} THEN NoneNode
    ELSE IF \E key \in DOMAIN obj : Len(key) < level THEN AbortedNode
    ELSE
    LET objlen == Cardinality(DOMAIN obj)
        arbitrary_key == LexMin(DOMAIN obj)
        substring == SliceFrom(arbitrary_key, level)
        prefix_length ==
            MinOf({Len(substring)} \cup
                  {common_prefix_length(substring, SliceFrom(key, level)) :
                       key \in DOMAIN obj})
    IN
    IF objlen = 1 THEN
        LeafNode(SliceFrom(arbitrary_key, level), obj[arbitrary_key])
    ELSE IF prefix_length > 0 THEN
        LET pat == patricialize_skips_nibble(obj, level + prefix_length + 1) IN
        IF pat.kind = "Aborted" THEN AbortedNode
        ELSE ExtensionNode(Slice(arbitrary_key, level, level + prefix_length),
                           encode_internal_node(pat, TRUE))
    ELSE
        LET ending == {key \in DOMAIN obj : Len(key) = level}
            value == IF ending = {} THEN <<128>>
                     ELSE Verbatim_encode(<<>>, obj[LexMax(ending)])
            bucket(i) == {key \in DOMAIN obj : Len(key) # level /\ key[level + 1] = i}
            pats == [i \in 1..16 |->
                        patricialize_skips_nibble([key \in bucket(i - 1) |-> obj[key]], level + 1)]
        IN
        IF \E i \in 1..16 : pats[i].kind = "Aborted" THEN AbortedNode
        ELSE BranchNode([i \in 1..16 |-> encode_internal_node(pats[i], TRUE)], value)

\* Trie::patricialize(obj, level)
RECURSIVE patricialize(_, _)
patricialize(obj, level) ==
    IF DOMAIN obj = {} THEN NoneNode
    ELSE IF \E key \in DOMAIN obj : Len(key) < level THEN AbortedNode
    ELSE
    LET objlen == Cardinality(DOMAIN obj)
        arbitrary_key == LexMin(DOMAIN obj)
        substring == SliceFrom(arbitrary_key, level)
        prefix_length ==
            MinOf({Len(substring)} \cup
                  {common_prefix_length(substring, SliceFrom(key, level)) :
                       key \in DOMAIN obj})
    IN
    IF objlen = 1 THEN
        LeafNode(SliceFrom(arbitrary_key, level), obj[arbitrary_key])
    ELSE IF prefix_length > 0 THEN
        LET pat == patricialize(obj, level + prefix_length) IN
        IF pat.kind = "Aborted" THEN AbortedNode
        ELSE ExtensionNode(Slice(arbitrary_key, level, level + prefix_length),
                           encode_internal_node(pat, TRUE))
    ELSE
        LET ending == {key \in DOMAIN obj : Len(key) = level}
            value == IF ending = {} THEN <<128>>
                     ELSE Verbatim_encode(<<>>, obj[LexMax(ending)])
            bucket(i) == {key \in DOMAIN obj : Len(key) # level /\ key[level + 1] = i}
            pats == [i \in 1..16 |->
                        patricialize([key \in bucket(i - 1) |-> obj[key]], level + 1)]
        IN
        IF \E i \in 1..16 : pats[i].kind = "Aborted" THEN AbortedNode
        ELSE BranchNode([i \in 1..16 |-> encode_internal_node(pats[i], TRUE)], value)

\* results of root(): Ok(Root) or an abort (panic) of the call
RootOk(bytes) == [tag |-> "Ok", bytes |-> bytes]
RootAbort == [tag |-> "Abort", bytes |-> <<>>]

\* Trie::root
root(sec, d) ==
    LET obj == prepare_trie(sec, d)
        pat == patricialize(obj, 0)
    IN
    IF pat.kind = "Aborted" THEN RootAbort
    ELSE
    LET root_node == encode_internal_node(pat, FALSE)
        encoded == encode_bytes(<<>>, root_node)
    IN
    IF Len(encoded) < 32 THEN RootOk(keccak256(encoded))
    ELSE IF Len(root_node) = 32 THEN RootOk(root_node)   \* try_into().unwrap()
    ELSE RootAbort

\* set without the removal of a key whose value is the default
set_never_removes(d, dflt, k, v) ==
    [j \in (DOMAIN d) \cup {k} |-> IF j = k THEN v ELSE d[j]]

\* set whose insert keeps the value of a key that is already present
set_keeps_old(d, dflt, k, v) ==
    IF v = dflt THEN [j \in (DOMAIN d) \ {k} |-> d[j]]
    ELSE [j \in (DOMAIN d) \cup {k} |-> IF j \in DOMAIN d THEN d[j] ELSE v]

\* Trie::set: the backing map after the call
set(d, dflt, k, v) ==
    IF v = dflt THEN [j \in (DOMAIN d) \ {k} |-> d[j]]
    ELSE [j \in (DOMAIN d) \cup {k} |-> IF j = k THEN v ELSE d[j]]

\* Trie::get
get(d, dflt, k) == IF k \in DOMAIN d THEN d[k] ELSE dflt

-----------------------------------------------------------------------------
(* The trie as a state machine: new, set, get, root                        *)

\* length of the long value: a one-byte key with a value of this length makes
\* a leaf whose encoding is 31 bytes long
LongValueLen == 26

\* number of keys in use
MaxKeys == 3

\* keys: two that share their first byte (one a prefix of the other), one that
\* differs in its first nibble, one that differs in its last nibble only
KeyPool == <<<<1>>, <<1, 2>>, <<16>>, <<1, 3>>, <<17>>>>

Keys == {KeyPool[i] : i \in 1..MaxKeys}

Values == {<<>>, <<5>>, Fill(LongValueLen, 97)}

Defaults == {<<>>, <<5>>}

Unit == [tag |-> "Unit", bytes |-> <<>>]
GotValue(v) == [tag |-> "Value", bytes |-> v]

NewOp == [kind |-> "new", k |-> <<>>, v |-> <<>>, ret |-> Unit]

\* no encode or decode call made yet
NoShape == [kind |-> "none", tys |-> <<>>]
NotWritten == [shape |-> NoShape, val |-> <<>>, before |-> <<>>]
NotDecoded == [src |-> "none", input |-> <<>>, shape |-> NoShape, dest_len |-> 0,
               tag |-> "none", val |-> <<>>, n |-> 0]

CodecIdle ==
    /\ written = NotWritten
    /\ buffer = <<>>
    /\ cursor = <<>>
    /\ decoded = NotDecoded
    /\ pc = "idle"
    /\ overflow_checks = TRUE

\* Trie::new(secured, default_value), for both tries
Init ==
    /\ secured \in BOOLEAN
    /\ default_value \in Defaults
    /\ data = <<>>
    /\ data2 = <<>>
    /\ last = [k \in Keys |-> default_value]
    /\ last2 = [k \in Keys |-> default_value]
    /\ first_key = <<>>
    /\ without = [k \in Keys |-> <<>>]
    /\ op = NewOp
    /\ CodecIdle

\* trie.set(k, v) on the trie under test
SetCall(k, v) ==
    /\ data' = set(data, default_value, k, v)
    /\ last' = [last EXCEPT ![k] = v]
    /\ without' = [j \in Keys |->
                      IF j = k THEN without[j] ELSE set(without[j], default_value, k, v)]
    /\ op' = [kind |-> "set", k |-> k, v |-> v, ret |-> Unit]
    /\ UNCHANGED <<secured, default_value, data2, last2, first_key>>
    /\ UNCHANGED codec_vars

\* trie.get(&k): takes &self
GetCall(k) ==
    /\ op' = [kind |-> "get", k |-> k, v |-> <<>>,
              ret |-> GotValue(get(data, default_value, k))]
    /\ UNCHANGED <<secured, default_value, data, data2, last, last2, first_key, without>>
    /\ UNCHANGED codec_vars

\* trie.root(): takes &self
RootCall ==
    /\ op' = [kind |-> "root", k |-> <<>>, v |-> <<>>, ret |-> root(secured, data)]
    /\ UNCHANGED <<secured, default_value, data, data2, last, last2, first_key, without>>
    /\ UNCHANGED codec_vars

Next ==
    \/ \E k \in Keys, v \in Values : SetCall(k, v)
    \/ \E k \in Keys : GetCall(k)
    \/ RootCall

Spec == Init /\ [][Next]_vars

\* Two tries with the same flag and default, each taking its own sequence of
\* set calls
SetFirst(k, v) ==
    /\ data' = set(data, default_value, k, v)
    /\ last' = [last EXCEPT ![k] = v]
    /\ first_key' = IF first_key = <<>> THEN k ELSE first_key
    /\ UNCHANGED <<secured, default_value, data2, last2, without, op>>
    /\ UNCHANGED codec_vars

SetSecond(k, v) ==
    /\ data2' = set(data2, default_value, k, v)
    /\ last2' = [last2 EXCEPT ![k] = v]
    /\ UNCHANGED <<secured, default_value, data, last, first_key, without, op>>
    /\ UNCHANGED codec_vars

NextOrder ==
    \/ \E k \in Keys, v \in Values : SetFirst(k, v)
    \/ \E k \in Keys, v \in Values : SetSecond(k, v)

SpecOrder == Init /\ [][NextOrder]_vars

-----------------------------------------------------------------------------
(* A trie over keys whose digests share their first byte                   *)

\* two one-byte keys whose keccak256 digests begin with the same byte (as those
\* of 0x01 and 0x12 do, both 0x5f) and a key that has one of them as a prefix
CloseKeys == {<<2>>, <<9>>, <<2, 9>>}

CloseValues == {<<>>, <<5>>, <<7>>}

InitClose ==
    /\ secured \in BOOLEAN
    /\ default_value = <<>>
    /\ data = <<>>
    /\ data2 = <<>>
    /\ last = [k \in Keys |-> <<>>]
    /\ last2 = [k \in Keys |-> <<>>]
    /\ first_key = <<>>
    /\ without = [k \in Keys |-> <<>>]
    /\ op = NewOp
    /\ CodecIdle

\* trie.set(k, v)
SetClose(k, v) ==
    /\ data' = set(data, default_value, k, v)
    /\ op' = [kind |-> "set", k |-> k, v |-> v, ret |-> Unit]
    /\ UNCHANGED <<secured, default_value, data2, last, last2, first_key, without>>
    /\ UNCHANGED codec_vars

\* trie.root()
RootClose ==
    /\ op' = [kind |-> "root", k |-> <<>>, v |-> <<>>, ret |-> root(secured, data)]
    /\ UNCHANGED <<secured, default_value, data, data2, last, last2, first_key, without>>
    /\ UNCHANGED codec_vars

NextClose ==
    \/ \E k \in CloseKeys, v \in CloseValues : SetClose(k, v)
    \/ RootClose

SpecClose == InitClose /\ [][NextClose]_vars

-----------------------------------------------------------------------------
(* nibble_list_to_compact on its own: one call per step                    *)

\* longest nibble list compacted
MaxNibbles == 4

NibblePool == {0, 1, 15}

RECURSIVE NibbleListsOf(_)
NibbleListsOf(n) ==
    IF n = 0 THEN {<<>>}
    ELSE {Append(x, b) : x \in NibbleListsOf(n - 1), b \in NibblePool}

NibbleLists == UNION {NibbleListsOf(n) : n \in 0..MaxNibbles}

InitCompact ==
    /\ secured = FALSE
    /\ default_value = <<>>
    /\ data = <<>>
    /\ data2 = <<>>
    /\ last = [k \in Keys |-> <<>>]
    /\ last2 = [k \in Keys |-> <<>>]
    /\ first_key = <<>>
    /\ without = [k \in Keys |-> <<>>]
    /\ op = NewOp
    /\ CodecIdle

\* nibble_list_to_compact(&x, is_leaf)
CompactCall(x, is_leaf) ==
    /\ op' = [kind |-> "nibble_list_to_compact", k |-> x, v |-> is_leaf,
              ret |-> nibble_list_to_compact(x, is_leaf)]
    /\ UNCHANGED <<secured, default_value, data, data2, last, last2, first_key, without>>
    /\ UNCHANGED codec_vars

NextCompact == \E x \in NibbleLists, is_leaf \in BOOLEAN : CompactCall(x, is_leaf)

SpecCompact == InitCompact /\ [][NextCompact]_vars

-----------------------------------------------------------------------------
(* The codec as a state machine: one encode call, then a decode of what was
   written; or a decode of a given input                                   *)

\* longest byte string encoded: its length takes two bytes
MaxLongLen == 256

\* longest Vec encoded
MaxVecLen == 2

Dog == <<100, 111, 103>>
Cat == <<99, 97, 116>>

ScalarTypes == {"bool", "Uint", "U64", "U256", "Bytes32", "Address", "Hash32",
                "Root", "Bytes8", "Bytes256", "VersionedHash", "Bytes", "String"}

\* the bytes of the values of a fixed-width type of the given size: zero, one,
\* 15, 127, 128, 1024 and the value of all bits set
FixedValues(size) ==
    {RightJustify(size, raw) : raw \in {<<>>, <<1>>, <<15>>, <<127>>, <<128>>, <<4, 0>>}}
        \cup {Fill(size, 255)}

BytesValues ==
    {<<>>, <<0>>, <<127>>, <<128>>, <<255>>, Dog}
        \cup {Fill(n, 97) : n \in {55, 56, 57, MaxLongLen - 1, MaxLongLen}}

StringValues == {<<>>, <<97>>, Dog, Fill(56, 97)}

ScalarValues(ty) ==
    CASE ty = "bool" -> {<<0>>, <<1>>}
      [] ty = "Bytes" -> BytesValues
      [] ty = "String" -> StringValues
      [] OTHER -> FixedValues(FixedSize(ty))

\* values of the members of tuples and vectors
MemberValues(ty) ==
    CASE ty = "bool" -> {<<0>>, <<1>>}
      [] ty = "Bytes" -> {<<>>, <<5>>, Cat, Dog, Fill(56, 97)}
      [] ty = "String" -> {<<>>, Dog}
      [] OTHER -> {RightJustify(FixedSize(ty), raw) : raw \in {<<>>, <<1>>, <<4, 0>>}}

RECURSIVE MemberSeqs(_)
MemberSeqs(tys) ==
    IF tys = <<>> THEN {<<>>}
    ELSE {<<a>> \o r : a \in MemberValues(Head(tys)), r \in MemberSeqs(Tail(tys))}

Shapes ==
    {Scalar(ty) : ty \in ScalarTypes}
        \cup {Tuple(<<"Bytes", "Uint">>), Tuple(<<"bool", "U64", "String">>),
              Vec("Bytes"), Vec("Uint"),
              OptionOf("Address"), OptionOf("Uint"), OptionOf("Bytes")}

ShapeValues(shape) ==
    CASE shape.kind = "scalar" -> {<<v>> : v \in ScalarValues(shape.tys[1])}
      [] shape.kind = "tuple" -> MemberSeqs(shape.tys)
      [] shape.kind = "option" ->
            {<<None>>} \cup {<<Some(v)>> : v \in ScalarValues(shape.tys[1])}
      [] OTHER -> UNION {MemberSeqs([i \in 1..n |-> shape.tys[1]]) : n \in 0..MaxVecLen}

\* inputs of decode that no encode call of the model wrote
RawInputs ==
    {<<129, b>> \o tail : b \in {0, 1, 127}, tail \in {<<>>, <<5>>}}
        \cup {<<>>, <<5>>, <<128>>, <<129>>, <<129, 128>>, <<131, 100, 111>>,
              <<184, 1, 5>>, <<185, 0, 56>> \o Fill(56, 97), <<184, 56>> \o Fill(55, 97),
              <<192>>, <<193, 5, 5>>, <<248, 1, 5>>,
              <<130, 4, 0>>, <<131, 100, 111, 103>>, <<131, 100, 111, 103, 5>>,
              <<128, 5>>, <<184, 56>> \o Fill(56, 97) \o <<5>>,
              <<194, 5, 128, 7>>, <<248, 56, 183>> \o Fill(55, 97) \o <<7>>,
              <<184, 0>>, <<184, 55>> \o Fill(55, 97), <<191, 0, 0, 0, 0, 0, 0, 0, 56>>,
              <<248, 0>>, <<248, 55, 182>> \o Fill(54, 97), <<249, 0, 56>> \o Fill(56, 5),
              <<254, 0, 0, 0, 0, 0, 0, 56>>, <<255, 0, 0, 0, 0, 0, 0, 0, 56>>,
              <<191>> \o Fill(8, 255), <<255>> \o Fill(8, 255),
              <<185, 1>>, <<186, 1, 0>>, <<200, 131>>, <<249, 1>>, <<255, 1>>,
              <<248, 56, 183>> \o Fill(54, 97),
              <<195, 5, 1, 7>>, <<197, 1, 4, 131, 100, 111>>,
              <<0>>, <<130, 0, 1>>, <<129, 255>>}

EmptyList == ItemList(<<>>)

\* values with sequences as members: the empty list, ["cat", "dog"],
\* ([], [[]], ([], [[]])), and lists whose joined encodings are 55, 56 and
\* MaxLongLen + 3 bytes long
NestedItems ==
    {EmptyList,
     ItemList(<<ItemBytes(Cat), ItemBytes(Dog)>>),
     ItemList(<<EmptyList, ItemList(<<EmptyList>>),
                ItemList(<<EmptyList, ItemList(<<EmptyList>>)>>)>>),
     ItemList(<<ItemBytes(Fill(54, 97))>>),
     ItemList(<<ItemBytes(Fill(55, 97))>>),
     ItemList(<<ItemList(<<ItemBytes(Fill(55, 97))>>), ItemBytes(<<5>>)>>),
     ItemList(<<ItemBytes(Fill(MaxLongLen, 97))>>)}

\* the shape recorded for the encode call of such a value
Nested == [kind |-> "nested", tys |-> <<>>]

\* sizes of the destination slice of a direct decode_to_bytes call
DestLens == {0, 1, 2, 4, 8, 16, 20, 32}

\* the shape recorded for a direct decode_to_bytes call
RawBytes == [kind |-> "decode_to_bytes", tys |-> <<>>]

InitCodec ==
    /\ secured = FALSE
    /\ default_value = <<>>
    /\ data = <<>>
    /\ data2 = <<>>
    /\ last = [k \in Keys |-> <<>>]
    /\ last2 = [k \in Keys |-> <<>>]
    /\ first_key = <<>>
    /\ without = [k \in Keys |-> <<>>]
    /\ op = NewOp
    /\ written = NotWritten
    /\ buffer \in {<<>>, <<170>>}
    /\ cursor = <<>>
    /\ decoded = NotDecoded
    /\ pc = "idle"
    /\ overflow_checks \in BOOLEAN

\* val.encode(&mut buffer) for a value of the shape
EncodeCall(shape, val) ==
    /\ pc = "idle"
    /\ written' = [shape |-> shape, val |-> val, before |-> buffer]
    /\ buffer' = Extended_encode(shape, val, buffer)
    /\ pc' = "encoded"
    /\ UNCHANGED <<cursor, decoded, overflow_checks>>
    /\ UNCHANGED trie_vars

\* item.encode(&mut buffer) for a value with sequences as members
EncodeItemCall(item) ==
    /\ pc = "idle"
    /\ written' = [shape |-> Nested, val |-> <<item>>, before |-> buffer]
    /\ buffer' = Item_encode(item, buffer)
    /\ pc' = "encoded_item"
    /\ UNCHANGED <<cursor, decoded, overflow_checks>>
    /\ UNCHANGED trie_vars

\* the record of a decode call on input, for a value of the shape, that
\* returned d
DecodeResult(src, input, shape, d) ==
    [src |-> src, input |-> input, shape |-> shape, dest_len |-> 0,
     tag |-> d.tag, val |-> d.val, n |-> d.n]

\* T::default().decode(&mut cursor), the cursor on the bytes the encode call
\* appended
DecodeWritten ==
    /\ pc = "encoded"
    /\ LET input == SliceFrom(buffer, Len(written.before))
           d == Extended_decode(written.shape, input, overflow_checks)
       IN
        /\ decoded' = DecodeResult("written", input, written.shape, d)
        /\ cursor' = d.rest
    /\ pc' = "decoded"
    /\ UNCHANGED <<written, buffer, overflow_checks>>
    /\ UNCHANGED trie_vars

\* T::default().decode(&mut cursor), the cursor on a given input
DecodeRaw(input, shape) ==
    /\ pc = "idle"
    /\ LET d == Extended_decode(shape, input, overflow_checks) IN
        /\ decoded' = DecodeResult("raw", input, shape, d)
        /\ cursor' = d.rest
    /\ pc' = "decoded"
    /\ UNCHANGED <<written, buffer, overflow_checks>>
    /\ UNCHANGED trie_vars

\* decode_to_bytes(&mut cursor, &mut dest), dest a slice of dest_len bytes
DecodeToBytesCall(input, dest_len) ==
    /\ pc = "idle"
    /\ LET r == decode_to_bytes(input, dest_len, overflow_checks) IN
        /\ decoded' = [src |-> "raw", input |-> input, shape |-> RawBytes,
                       dest_len |-> dest_len, tag |-> r.tag, val |-> <<r.dest>>,
                       n |-> r.n]
        /\ cursor' = r.rest
    /\ pc' = "decoded"
    /\ UNCHANGED <<written, buffer, overflow_checks>>
    /\ UNCHANGED trie_vars

\* decode_to::<T>(input)
DecodeToCall(input, shape) ==
    /\ pc = "idle"
    /\ LET d == decode_to(shape, input, overflow_checks) IN
        /\ decoded' = DecodeResult("decode_to", input, shape, d)
        /\ cursor' = d.rest
    /\ pc' = "decoded"
    /\ UNCHANGED <<written, buffer, overflow_checks>>
    /\ UNCHANGED trie_vars

NextCodec ==
    \/ \E shape \in Shapes : \E val \in ShapeValues(shape) : EncodeCall(shape, val)
    \/ \E item \in NestedItems : EncodeItemCall(item)
    \/ DecodeWritten
    \/ \E input \in RawInputs, shape \in Shapes : DecodeRaw(input, shape)
    \/ \E input \in RawInputs, dest_len \in DestLens : DecodeToBytesCall(input, dest_len)
    \/ \E input \in RawInputs, shape \in Shapes : DecodeToCall(input, shape)

SpecRlp == InitCodec /\ [][NextCodec]_vars

-----------------------------------------------------------------------------
(* Properties of the trie                                                  *)

\* the key/value set a sequence of set calls leaves: the most recent value of
\* every key, the keys whose most recent value is the default left out
FinalSet(l) == {<<k, l[k]>> : k \in {j \in Keys : l[j] # default_value}}

\* the top-level node of the trie under test, as patricialize builds it
TopNode == patricialize(prepare_trie(secured, data), 0)

\* C1: a trie that holds no entries (fresh, or every key set back to the
\* default), secured or not, has root() = Ok(keccak256([0x80])).
C1_EmptyTrieRoot ==
    (op.kind = "root" /\ \A k \in Keys : last[k] = default_value)
        => op.ret = RootOk(keccak256(<<128>>))

\* C2: root() is keccak256(E), E the encoding of the top-level node that
\* patricialize builds at level 0, whether E is shorter than 32 bytes (E is
\* hashed as it is, not wrapped again as a byte string) or not.
C2_RootIsHashOfTopNode ==
    op.kind = "root" => op.ret = RootOk(keccak256(node_encoded(TopNode)))

\* C3: root() returns Ok with a 32-byte digest or Err with an RLPException; it
\* never aborts, also not when the top-level node's encoding is 31 bytes long.
C3_RootNeverAborts ==
    op.kind = "root" =>
        \/ op.ret.tag = "Ok" /\ Len(op.ret.bytes) = 32
        \/ op.ret.tag = "Err"

\* C4: two sequences of set calls, on tries with the same secured flag and
\* default, that leave the same final key/value set give the same root().
C4_OrderIndependence ==
    FinalSet(last) = FinalSet(last2) => root(secured, data) = root(secured, data2)

\* C4 witness: both tries hold the same two entries, and the key the first
\* trie's sequence of set calls began with has since been deleted from it.
C4_Witness ==
    /\ FinalSet(last) = FinalSet(last2)
    /\ Cardinality(FinalSet(last)) = 2
    /\ first_key # <<>>
    /\ last[first_key] = default_value
    /\ root(secured, data).tag = "Ok"

\* C5: after set(k, default), get(k) is the default and root() is that of the
\* trie built by the same calls with k never set.
C5_DefaultOmission ==
    (op.kind = "set" /\ op.v = default_value) =>
        /\ get(data, default_value, op.k) = default_value
        /\ root(secured, data) = root(secured, without[op.k])

\* C5 witness: set(k, default) has just run on a trie that holds other keys
C5_Witness ==
    /\ op.kind = "set" /\ op.v = default_value
    /\ Cardinality(DOMAIN without[op.k]) = 2
    /\ root(secured, data).tag = "Ok"

\* C6: no key of the backing map is associated with the default value.
C6_NoDefaultStored ==
    \A k \in DOMAIN data : data[k] # default_value

\* C6 witness: a non-empty default, every key stored, the last call a set
C6_Witness ==
    /\ default_value # <<>>
    /\ DOMAIN data = Keys
    /\ op.kind = "set"

\* C7: get(k) is the value of the most recent set(k, v), the default when k
\* was never set; a set on k leaves get of every other key unchanged; get
\* does not change the trie.
C7_GetReturnsLastSet ==
    /\ [](\A k \in Keys : get(data, default_value, k) = last[k])
    /\ [][/\ op'.kind = "get" =>
                /\ data' = data
                /\ op'.ret = GotValue(last[op'.k])
          /\ op'.kind = "set" =>
                \A j \in Keys \ {op'.k} :
                    get(data', default_value, j) = get(data, default_value, j)]_vars

\* C7 witness: get has just returned the stored value of a key, another key
\* holding a different value
C7_Witness ==
    /\ op.kind = "get"
    /\ op.k \in DOMAIN data
    /\ op.ret = GotValue(data[op.k])
    /\ \E j \in Keys \ {op.k} : j \in DOMAIN data /\ data[j] # data[op.k]

\* n is the nibble sequence of bytes: two nibbles per byte, the high one
\* first, every nibble below 16
IsNibblesOf(n, bytes) ==
    /\ Len(n) = 2 * Len(bytes)
    /\ \A i \in 1..Len(n) : n[i] \in 0..15
    /\ \A j \in 1..Len(bytes) : 16 * n[2 * j - 1] + n[2 * j] = bytes[j]

\* a comes before b in the lexicographic order: a is a proper prefix of b, or
\* at the first position where they differ a holds the smaller nibble
NibblesBefore(a, b) ==
    \E p \in 0..Len(a) :
        /\ p <= Len(b)
        /\ \A q \in 1..p : a[q] = b[q]
        /\ \/ p = Len(a) /\ p < Len(b)
           \/ p < Len(a) /\ p < Len(b) /\ a[p + 1] < b[p + 1]

Bucket(obj, level, i) ==
    [key \in {k \in DOMAIN obj : Len(k) > level /\ k[level + 1] = i} |-> obj[key]]

\* the calls of patricialize that the call on (obj, level) makes, itself
\* included: one below an Extension, sixteen below a Branch
RECURSIVE PatricializeCalls(_, _)
PatricializeCalls(obj, level) ==
    LET node == patricialize(obj, level) IN
    {<<obj, level>>} \cup
        (CASE node.kind = "ExtensionNode" ->
                PatricializeCalls(obj, level + Len(node.key_segment))
           [] node.kind = "BranchNode" ->
                UNION {PatricializeCalls(Bucket(obj, level, i), level + 1) : i \in 0..15}
           [] OTHER -> {})

\* every key of obj has p nibbles from the level onward, the same in all keys
SharedFrom(obj, level, p) ==
    \A a \in DOMAIN obj : \A b \in DOMAIN obj :
        /\ Len(a) >= level + p
        /\ \A q \in (level + 1)..(level + p) : a[q] = b[q]

\* the length of the longest nibble prefix, from the level onward, that every
\* key of obj shares
LongestSharedPrefix(obj, level) ==
    CHOOSE p \in 0..64 :
        /\ SharedFrom(obj, level, p)
        /\ \A r \in (p + 1)..64 : ~SharedFrom(obj, level, r)

\* the node of patricialize(obj, level) has the shape its case calls for
PatricializeShape(obj, level) ==
    LET node == patricialize(obj, level)
        p == LongestSharedPrefix(obj, level)
    IN
    IF DOMAIN obj = {} THEN node = NoneNode
    ELSE IF Cardinality(DOMAIN obj) = 1 THEN
        \E key \in DOMAIN obj :
            node = LeafNode(SliceFrom(key, level), obj[key])
    ELSE IF p > 0 THEN
        \E key \in DOMAIN obj :
            node = ExtensionNode(Slice(key, level, level + p),
                                 encode_internal_node(patricialize(obj, level + p), TRUE))
    ELSE
        /\ node.kind = "BranchNode"
        /\ Len(node.subnodes) = 16
        /\ \A i \in 0..15 :
              node.subnodes[i + 1] =
                  encode_internal_node(patricialize(Bucket(obj, level, i), level + 1), TRUE)

\* C20: patricialize(map, level) returns Empty for an empty map; a Leaf with
\* the single key's nibbles from level onward and its value for a map of one
\* entry; otherwise, p being the length of the longest nibble prefix from level
\* onward shared by every key, an Extension with those p nibbles and the child
\* built at level + p when p > 0, and when p = 0 a Branch whose bucket i is
\* built at level + 1 from exactly the entries whose nibble at the level is i.
\* This holds for the top call of root() and for every call nested in it.
C20_PatricializeStructure ==
    \A call \in PatricializeCalls(prepare_trie(secured, data), 0) :
        PatricializeShape(call[1], call[2])

\* C20 witness: root() has run on an unsecured trie of three keys, whose top
\* node is a Branch with an Extension of one nibble below it
C20_Witness ==
    /\ op.kind = "root"
    /\ ~secured
    /\ Cardinality(DOMAIN data) = 3
    /\ TopNode.kind = "BranchNode"
    /\ \E call \in PatricializeCalls(prepare_trie(secured, data), 0) :
          /\ call[2] = 1
          /\ patricialize(call[1], call[2]).kind = "ExtensionNode"
          /\ Len(patricialize(call[1], call[2]).key_segment) = 1

\* the calls of patricialize nested in root() that return an Extension
ExtensionCalls ==
    {call \in PatricializeCalls(prepare_trie(secured, data), 0) :
        patricialize(call[1], call[2]).kind = "ExtensionNode"}

\* the node that the call below an Extension returns
ExtensionChild(call) ==
    patricialize(call[1], call[2] + Len(patricialize(call[1], call[2]).key_segment))

\* C21: in every node tree built by patricialize, the child of an Extension is
\* a Branch: the call made at level + prefix_length never returns an
\* Extension, a Leaf or the empty node.
C21_ExtensionChildIsBranch ==
    \A call \in ExtensionCalls : ExtensionChild(call).kind = "BranchNode"

\* C21 witness: root() has run on an unsecured trie whose top node is an
\* Extension over the two nibbles its two keys share
C21_Witness ==
    /\ op.kind = "root"
    /\ ~secured
    /\ Cardinality(DOMAIN data) = 2
    /\ TopNode.kind = "ExtensionNode"
    /\ Len(TopNode.key_segment) = 2
    /\ <<prepare_trie(secured, data), 0>> \in ExtensionCalls

\* the child references spliced into a node
ChildReferences(node) ==
    CASE node.kind = "ExtensionNode" -> {node.subnode}
      [] node.kind = "BranchNode" -> {node.subnodes[i] : i \in 1..16}
      [] OTHER -> {}

\* the size rule for one node: E is the node's own encoding
ReferenceSizeRule(node) ==
    LET E == node_encoded(node) IN
    /\ Len(keccak256(E)) = 32
    /\ Len(E) < 32 =>
          /\ encode_internal_node(node, FALSE) = E
          /\ encode_internal_node(node, TRUE) = E
    /\ Len(E) >= 32 =>
          /\ encode_internal_node(node, FALSE) = keccak256(E)
          /\ encode_internal_node(node, TRUE) = <<160>> \o keccak256(E)
          /\ Len(encode_internal_node(node, TRUE)) = 33
    /\ \A ref \in ChildReferences(node) : Len(ref) < 32 \/ Len(ref) = 33

\* C22: encoding a node whose encoding E is shorter than 32 bytes returns E
\* unchanged; when E is 32 bytes or longer it returns the bare 32 bytes of
\* keccak256(E) for the top-level call and, for a child placed inside a
\* parent, the 33 bytes 0xa0 and keccak256(E).  Every child reference in an
\* Extension or a Branch is shorter than 32 bytes or exactly 33 bytes long.
C22_ReferenceSize ==
    \A call \in PatricializeCalls(prepare_trie(secured, data), 0) :
        ReferenceSizeRule(patricialize(call[1], call[2]))

\* C22 witness: root() has run on a trie whose top node is a Branch that holds
\* a reference of 33 bytes and the reference of a Leaf shorter than 32 bytes
C22_Witness ==
    /\ op.kind = "root"
    /\ TopNode.kind = "BranchNode"
    /\ \E ref \in ChildReferences(TopNode) : Len(ref) = 33
    /\ \E ref \in ChildReferences(TopNode) : Len(ref) > 1 /\ Len(ref) < 32
    /\ Len(node_encoded(TopNode)) >= 32

-----------------------------------------------------------------------------
(* Properties of the codec                                                 *)

\* C8: round trip.  For every type with both encode and decode and every
\* value v of it, zero, false and the empty byte string included, decoding the
\* bytes that encode(v) wrote succeeds and yields exactly v.
C8_RoundTrip ==
    (pc = "decoded" /\ decoded.src = "written") =>
        /\ decoded.tag = "Ok"
        /\ decoded.val = written.val

\* the input starts with the prefix 0x81 followed by a single byte below 0x80
WrappedSmallByte(input) ==
    /\ Len(input) >= 2
    /\ input[1] = 129
    /\ input[2] < 128

\* C9: decoding an input that starts with 0x81 followed by a byte b < 0x80
\* fails with a decoding error, for a fixed-size destination of any size of at
\* least 1 and for the Bytes decoder; it never yields the value b (the call
\* returns Err, so no value is produced).
C9_CanonicalityRejection ==
    (/\ pc = "decoded"
     /\ WrappedSmallByte(decoded.input)
     /\ \/ decoded.shape = RawBytes /\ decoded.dest_len >= 1
        \/ decoded.shape.kind = "scalar") =>
        decoded.tag = "DecodingError"

\* C9 witness: the Bytes decoder has been given 0x81 0x7f and more
C9_Witness ==
    /\ pc = "decoded"
    /\ decoded.input = <<129, 127, 5>>
    /\ decoded.shape = Scalar("Bytes")
    /\ decoded.tag = "DecodingError"

\* C10: encode_bytes appends, for input s: s itself when s is one byte below
\* 0x80; else 0x80 + len(s) and s when len(s) < 56; else 0xB7 + k, the k-byte
\* big-endian length without a leading zero byte, and s.  The bytes already in
\* the buffer stay.  "dog" gives 0x83 'd' 'o' 'g', the empty string 0x80, and
\* the encoding of a string of 56 bytes starts with 0xb8 0x38.
C10_EncodeBytes ==
    (written.shape \in {Scalar("Bytes"), Scalar("String")}) =>
        LET s == written.val[1]
            appended == SliceFrom(buffer, Len(written.before))
        IN
        /\ Len(buffer) >= Len(written.before)
        /\ Slice(buffer, 0, Len(written.before)) = written.before
        /\ IF Len(s) = 1 /\ s[1] < 128 THEN appended = s
           ELSE IF Len(s) < 56 THEN appended = <<128 + Len(s)>> \o s
           ELSE \E k \in 1..8 :
                    /\ Len(appended) = 1 + k + Len(s)
                    /\ appended[1] = 183 + k
                    /\ appended[2] # 0
                    /\ BeValue(Slice(appended, 1, 1 + k)) = Len(s)
                    /\ SliceFrom(appended, 1 + k) = s
        /\ s = Dog => appended = <<131, 100, 111, 103>>
        /\ s = <<>> => appended = <<128>>
        /\ Len(s) = 56 => Slice(appended, 0, 2) = <<184, 56>>

\* C10 witness: a byte string of 56 bytes has been appended to a buffer that
\* held a byte
C10_Witness ==
    /\ pc = "encoded"
    /\ written.shape = Scalar("Bytes")
    /\ Len(written.val[1]) = 56
    /\ written.before # <<>>

\* the prefix of a sequence whose joined member encodings are n bytes long:
\* 0xC0 + n when n < 56, else 0xF7 + k and the k bytes of n, big-endian, the
\* first of them not zero
IsSequencePrefix(prefix, n) ==
    IF n < 56 THEN prefix = <<192 + n>>
    ELSE /\ Len(prefix) >= 2
         /\ prefix[1] = 247 + (Len(prefix) - 1)
         /\ prefix[2] # 0
         /\ BeValue(Tail(prefix)) = n

\* the members' own encodings, concatenated in declared order
RECURSIVE JoinedMembers(_, _, _)
JoinedMembers(tys, members, i) ==
    IF i > Len(members) THEN <<>>
    ELSE Extended_encode(Scalar(tys[i]), <<members[i]>>, <<>>)
             \o JoinedMembers(tys, members, i + 1)

RECURSIVE JoinedItems(_, _)
JoinedItems(items, i) ==
    IF i > Len(items) THEN <<>>
    ELSE Item_encode(items[i], <<>>) \o JoinedItems(items, i + 1)

\* the joined member encodings of the sequence last written
WrittenJoined ==
    CASE written.shape.kind = "tuple" -> JoinedMembers(written.shape.tys, written.val, 1)
      [] written.shape.kind = "vec" ->
            JoinedMembers([i \in 1..Len(written.val) |-> written.shape.tys[1]],
                          written.val, 1)
      [] OTHER -> JoinedItems(written.val[1].items, 1)

WrittenSequence ==
    \/ written.shape.kind \in {"tuple", "vec"}
    \/ written.shape = Nested /\ written.val[1].kind = "list"

\* C11: encoding a sequence appends 0xC0 + n when the joined member encodings
\* are n < 56 bytes long, else 0xF7 + k and the k-byte big-endian n without a
\* leading zero, and then the members' own encodings in declared order.  The
\* empty list gives 0xc0; ["cat", "dog"] gives 0xc8 0x83 c a t 0x83 d o g;
\* ([], [[]], ([], [[]])) gives 0xc7 0xc0 0xc1 0xc0 0xc3 0xc0 0xc1 0xc0.
C11_EncodeSequence ==
    WrittenSequence =>
        LET appended == SliceFrom(buffer, Len(written.before))
            joined == WrittenJoined
            n == Len(joined)
        IN
        /\ Len(buffer) >= Len(written.before) + 1 + n
        /\ Slice(buffer, 0, Len(written.before)) = written.before
        /\ IsSequencePrefix(Slice(appended, 0, Len(appended) - n), n)
        /\ SliceFrom(appended, Len(appended) - n) = joined
        /\ (written.shape.kind = "vec" /\ written.val = <<>>) => appended = <<192>>
        /\ (written.shape = Vec("Bytes") /\ written.val = <<Cat, Dog>>) =>
                appended = <<200, 131, 99, 97, 116, 131, 100, 111, 103>>
        /\ (written.shape = Nested
                /\ written.val[1] = ItemList(<<ItemBytes(Cat), ItemBytes(Dog)>>)) =>
                appended = <<200, 131, 99, 97, 116, 131, 100, 111, 103>>
        /\ (written.shape = Nested /\ Len(written.val[1].items) = 3
                /\ written.val[1].items[1] = EmptyList) =>
                appended = <<199, 192, 193, 192, 195, 192, 193, 192>>

\* C11 witness: a list whose joined member encodings are 56 bytes long has
\* been appended to a buffer that held a byte
C11_Witness ==
    /\ pc = "encoded_item"
    /\ written.val[1] = ItemList(<<ItemBytes(Fill(55, 97))>>)
    /\ written.before # <<>>
    /\ Slice(buffer, 1, 3) = <<248, 56>>

\* the integer types and the fixed-width byte types with an encoder
FixedWidthTypes == {"Uint", "U64", "U256", "Bytes32", "Address", "Hash32", "Root",
                    "Bytes8", "Bytes256", "VersionedHash"}

\* bytes with all its leading zero bytes removed
WithoutLeadingZeros(bytes) ==
    LET nz == {i \in 1..Len(bytes) : bytes[i] # 0}
    IN  IF nz = {} THEN <<>> ELSE SubSeq(bytes, MinOf(nz), Len(bytes))

\* C12: every unsigned integer type and every fixed-width byte type with an
\* encoder encodes as the byte-string encoding of its big-endian bytes with
\* all leading zero bytes removed; the all-zero value encodes as 0x80, 15 as
\* 0x0f and 1024 as 0x82 0x04 0x00.
C12_FixedWidthEncoding ==
    (written.shape.kind = "scalar" /\ written.shape.tys[1] \in FixedWidthTypes) =>
        LET v == written.val[1]
            appended == SliceFrom(buffer, Len(written.before))
        IN
        /\ appended = encode_bytes(<<>>, WithoutLeadingZeros(v))
        /\ (\A i \in 1..Len(v) : v[i] = 0) => appended = <<128>>
        /\ WithoutLeadingZeros(v) = <<15>> => appended = <<15>>
        /\ WithoutLeadingZeros(v) = <<4, 0>> => appended = <<130, 4, 0>>

\* The byte-string encodings of the format: the number of bytes before the
\* payload (the prefix byte and the length field) and the payload's length,
\* read off the front of the input.  A single byte below 0x80 is its own
\* payload; 0x80 is the empty string.
StringHeaderLen(input) ==
    IF input[1] < 128 THEN 0
    ELSE IF input[1] <= 183 THEN 1
    ELSE 1 + (input[1] - 183)

StringPayloadLen(input) ==
    IF input[1] < 128 THEN 1
    ELSE IF input[1] <= 183 THEN input[1] - 128
    ELSE decode_length(Slice(input, 1, StringHeaderLen(input)))

\* the input starts with a complete byte-string header
HasStringHeader(input) ==
    /\ Len(input) >= 1
    /\ input[1] < 192
    /\ Len(input) >= StringHeaderLen(input)

\* the input starts with a well-formed byte-string encoding: complete, and in
\* the one form the format allows for its payload
WellFormedString(input) ==
    /\ HasStringHeader(input)
    /\ Len(input) >= StringHeaderLen(input) + StringPayloadLen(input)
    /\ (input[1] = 129) => input[2] >= 128
    /\ (input[1] >= 184) => (input[2] # 0 /\ StringPayloadLen(input) >= 56)

StringPayload(input) ==
    Slice(input, StringHeaderLen(input),
          StringHeaderLen(input) + StringPayloadLen(input))

\* C13: when decode_to_bytes succeeds on a byte-string encoding with payload p
\* into a destination of d >= len(p) bytes, the destination's last len(p)
\* bytes are p and its first d - len(p) bytes are zero; the empty payload (the
\* input byte 0x80) leaves the destination all zero.
C13_RightJustified ==
    (/\ pc = "decoded"
     /\ decoded.shape = RawBytes
     /\ decoded.tag = "Ok"
     /\ WellFormedString(decoded.input)
     /\ decoded.dest_len >= StringPayloadLen(decoded.input)) =>
        LET p == StringPayload(decoded.input)
            d == decoded.dest_len
            dest == decoded.val[1]
        IN
        /\ Len(dest) = d
        /\ \A i \in 1..d :
              dest[i] = IF i <= d - Len(p) THEN 0 ELSE p[i - (d - Len(p))]

\* C14: decode_to_bytes returns DestTooSmall(N) exactly when the input is a
\* well-formed byte-string encoding whose payload length N is greater than
\* the destination length; a payload that fits (the empty payload into a
\* zero-length destination included) never yields DestTooSmall, and every
\* other malformation yields DecodingError.
C14_DestTooSmallExactly ==
    (pc = "decoded" /\ decoded.shape = RawBytes) =>
        /\ decoded.tag = "DestTooSmall" <=>
              /\ WellFormedString(decoded.input)
              /\ StringPayloadLen(decoded.input) > decoded.dest_len
        /\ decoded.tag = "DestTooSmall" => decoded.n = StringPayloadLen(decoded.input)
        /\ ~WellFormedString(decoded.input) => decoded.tag = "DecodingError"

\* the input starts with a long-form prefix (base + 1 .. base + 8) whose length
\* field begins with a zero byte, or is complete and gives a length below 56
NonMinimalLength(input, base) ==
    /\ Len(input) >= 2
    /\ input[1] > base
    /\ input[1] <= base + 8
    /\ \/ input[2] = 0
       \/ /\ Len(input) >= 1 + (input[1] - base)
          /\ decode_length(Slice(input, 1, 1 + (input[1] - base))) < 56

\* the decode call recorded read a byte string (a sequence) off its input
DecodedString == decoded.shape = RawBytes \/ decoded.shape.kind = "scalar"
DecodedSequence == decoded.shape.kind \in {"tuple", "vec"}

\* C15: for byte strings (prefix 0xB8..0xBF) and for sequences (prefix
\* 0xF8..0xFF) decoding fails with a decoding error when the first byte of the
\* length field is zero, and when the long-form length is less than 56.
C15_NonMinimalLengthRejected ==
    (/\ pc = "decoded"
     /\ \/ DecodedString /\ NonMinimalLength(decoded.input, 183)
        \/ DecodedSequence /\ NonMinimalLength(decoded.input, 247)) =>
        decoded.tag = "DecodingError"

\* The sequence encodings of the format: the number of bytes before the joined
\* member encodings and their length, read off the front of the input.
SequenceHeaderLen(input) ==
    IF input[1] <= 247 THEN 1 ELSE 1 + (input[1] - 247)

SequencePayloadLen(input) ==
    IF input[1] <= 247 THEN input[1] - 192
    ELSE decode_length(Slice(input, 1, SequenceHeaderLen(input)))

\* the input is empty, ends within the length field its prefix announces, or
\* holds fewer bytes after the length field than the length declared
TruncatedString(input) ==
    \/ Len(input) = 0
    \/ /\ input[1] < 192
       /\ \/ Len(input) < StringHeaderLen(input)
          \/ Len(input) < StringHeaderLen(input) + StringPayloadLen(input)

TruncatedSequence(input) ==
    \/ Len(input) = 0
    \/ /\ input[1] >= 192
       /\ \/ Len(input) < SequenceHeaderLen(input)
          \/ Len(input) < SequenceHeaderLen(input) + SequencePayloadLen(input)

\* C16: decoding a byte string or a sequence fails with a decoding error when
\* the input is empty, when it ends before all length bytes announced by the
\* prefix are present, and when the declared payload length exceeds the number
\* of bytes that follow the prefix and the length field.
C16_TruncatedRejected ==
    (/\ pc = "decoded"
     /\ \/ DecodedString /\ TruncatedString(decoded.input)
        \/ DecodedSequence /\ TruncatedSequence(decoded.input)) =>
        decoded.tag = "DecodingError"

\* the length of the complete encoding (prefix byte, length bytes, payload) of
\* the item at the front of the input
ItemLen(input) ==
    IF input[1] < 192 THEN StringHeaderLen(input) + StringPayloadLen(input)
    ELSE SequenceHeaderLen(input) + SequencePayloadLen(input)

\* the complete encodings of the first k items of the joined encodings
RECURSIVE SplitItems(_, _)
SplitItems(joined, k) ==
    IF k = 0 \/ Len(joined) = 0 THEN <<>>
    ELSE <<Slice(joined, 0, ItemLen(joined))>>
             \o SplitItems(SliceFrom(joined, ItemLen(joined)), k - 1)

\* the joined member encodings of the sequence at the front of the input
SequencePayload(input) ==
    Slice(input, SequenceHeaderLen(input),
          SequenceHeaderLen(input) + SequencePayloadLen(input))

\* the types of the members the decode call recorded has decoded
DecodedTypes ==
    IF decoded.shape.kind = "tuple" THEN decoded.shape.tys
    ELSE [i \in 1..Len(decoded.val) |-> decoded.shape.tys[1]]

\* the members decoded are the items of the payload, one after the other:
\* member i is what its type's decoder reads from the i-th item alone
MembersInOrder ==
    LET items == SplitItems(SequencePayload(decoded.input), Len(DecodedTypes)) IN
    /\ Len(items) = Len(decoded.val)
    /\ \A i \in 1..Len(items) :
          /\ scalar_decode(DecodedTypes[i], items[i], overflow_checks).tag = "Ok"
          /\ scalar_decode(DecodedTypes[i], items[i], overflow_checks).val = decoded.val[i]

\* C17: when decoding one item (byte string or sequence) from the front of the
\* cursor succeeds, the cursor afterwards is the input with that item's
\* complete encoding (prefix byte, length bytes, payload) removed from the
\* front; the bytes after the item are untouched, and the members of a
\* sequence are decoded from its consecutive items in order.
C17_CursorAdvance ==
    (pc = "decoded" /\ decoded.tag = "Ok" /\ (DecodedString \/ DecodedSequence)) =>
        /\ Len(decoded.input) >= ItemLen(decoded.input)
        /\ cursor = SliceFrom(decoded.input, ItemLen(decoded.input))
        /\ DecodedSequence => MembersInOrder

\* C17 witness: a sequence in the long form, a byte after it, has been
\* decoded into a vector and the byte is what the cursor is left on
C17_Witness ==
    /\ pc = "decoded"
    /\ decoded.tag = "Ok"
    /\ decoded.shape = Vec("Bytes")
    /\ decoded.input = <<248, 56, 183>> \o Fill(55, 97) \o <<7>>
    /\ decoded.val = <<Fill(55, 97)>>
    /\ cursor = <<7>>

\* C18: encoding an absent Option appends no bytes and encoding Some(t)
\* appends exactly t's encoding; decoding an Option yields absent if and only
\* if the remaining buffer is empty, and then consumes nothing; otherwise it
\* decodes one inner value and yields Some of it or the inner decoder's error.
C18_OptionalFields ==
    /\ written.shape.kind = "option" =>
            LET opt == written.val[1]
                appended == SliceFrom(buffer, Len(written.before))
            IN
            /\ Slice(buffer, 0, Len(written.before)) = written.before
            /\ ~opt.some => appended = <<>>
            /\ opt.some =>
                  appended = Extended_encode(Scalar(written.shape.tys[1]),
                                             <<opt.val>>, <<>>)
    /\ (/\ pc = "decoded"
        /\ decoded.shape.kind = "option"
        /\ decoded.src \in {"written", "raw"}) =>
            LET inner == scalar_decode(decoded.shape.tys[1], decoded.input,
                                       overflow_checks)
            IN
            /\ (decoded.tag = "Ok" /\ decoded.val = <<None>>) <=> decoded.input = <<>>
            /\ decoded.input = <<>> => cursor = decoded.input
            /\ decoded.input # <<>> =>
                  /\ decoded.tag = inner.tag
                  /\ decoded.n = inner.n
                  /\ cursor = inner.rest
                  /\ inner.tag = "Ok" => decoded.val = <<Some(inner.val)>>

\* C18 witness: None has been appended to a buffer that held a byte, and the
\* decode of the bytes appended has given None
C18_Witness ==
    /\ pc = "decoded"
    /\ decoded.src = "written"
    /\ written.shape = OptionOf("Address")
    /\ written.val = <<None>>
    /\ written.before # <<>>
    /\ buffer = written.before
    /\ decoded.tag = "Ok"
    /\ decoded.val = <<None>>

-----------------------------------------------------------------------------
(* Properties of the trie's nodes and of decoding as a whole               *)

\* the calls of patricialize nested in root() that return a Branch
BranchCalls ==
    {call \in PatricializeCalls(prepare_trie(secured, data), 0) :
        patricialize(call[1], call[2]).kind = "BranchNode"}

\* the keys of a call's map that end at the call's level
EndingAt(call) == {key \in DOMAIN call[1] : Len(key) = call[2]}

\* the references of the sixteen buckets of a Branch call, bucket 0 first
BucketReferences(call) ==
    [i \in 1..16 |->
        encode_internal_node(patricialize(Bucket(call[1], call[2], i - 1), call[2] + 1),
                             TRUE)]

\* the byte strings of seqs, one after the other
RECURSIVE Flatten(_)
Flatten(seqs) == IF seqs = <<>> THEN <<>> ELSE Head(seqs) \o Flatten(Tail(seqs))

\* the Branch of the call: its inline value and its encoding
BranchRule(call) ==
    LET node == patricialize(call[1], call[2])
        E == node_encoded(node)
        payload == Flatten(BucketReferences(call)) \o node.value
    IN
    /\ Cardinality(EndingAt(call)) <= 1
    /\ EndingAt(call) = {} => node.value = <<128>>
    /\ \A key \in EndingAt(call) : node.value = call[1][key]
    /\ Len(E) > Len(payload)
    /\ IsSequencePrefix(Slice(E, 0, Len(E) - Len(payload)), Len(payload))
    /\ SliceFrom(E, Len(E) - Len(payload)) = payload

\* C23: a Branch encodes as one list whose payload is its 16 child references
\* in bucket order 0..15 followed by its inline value; the inline value is the
\* encoded value of the entry whose key length equals the branch's level and
\* the single byte 0x80 when no key ends there; at most one entry of the map
\* passed to patricialize has a key of length level.
C23_BranchEncoding ==
    \A call \in BranchCalls : BranchRule(call)

\* C23 witness: root() has run on an unsecured trie of three keys; its top
\* Branch has no inline value, a Branch below holds the value of the key that
\* ends at its level, and that value is not the empty string's encoding
C23_Witness ==
    /\ op.kind = "root"
    /\ ~secured
    /\ Cardinality(DOMAIN data) = 3
    /\ TopNode.kind = "BranchNode"
    /\ TopNode.value = <<128>>
    /\ \E call \in BranchCalls :
          /\ EndingAt(call) # {}
          /\ patricialize(call[1], call[2]).value # <<128>>

\* the values (0-based) that the loop variable of nibble_list_to_compact takes
LoopIndexes(x) ==
    {i \in (Len(x) % 2)..(Len(x) - 1) : (i - (Len(x) % 2)) % 2 = 0}

\* C24: for a nibble list x and a flag is_leaf, nibble_list_to_compact returns
\* 1 + floor(len(x) / 2) bytes: the first has the high nibble
\* 2 * is_leaf + (len(x) mod 2) and the low nibble x[0] when len(x) is odd, 0
\* when even; then come the remaining nibbles, two per byte, the high one
\* first.  No index goes past the end of x, and different (x, is_leaf) give
\* different outputs.
C24_CompactEncoding ==
    op.kind = "nibble_list_to_compact" =>
        LET x == op.k
            out == op.ret
            odd == Len(x) % 2
            leaf == IF op.v THEN 1 ELSE 0
        IN
        /\ Len(out) = 1 + (Len(x) \div 2)
        /\ out[1] \div 16 = 2 * leaf + odd
        /\ out[1] % 16 = (IF odd = 1 THEN x[1] ELSE 0)
        /\ \A j \in 2..Len(out) :
              out[j] = 16 * x[2 * (j - 1) - 1 + odd] + x[2 * (j - 1) + odd]
        /\ \A i \in LoopIndexes(x) : i + 1 < Len(x)
        /\ \A y \in NibbleLists : \A f \in BOOLEAN :
              (<<y, f>> # <<x, op.v>>) => nibble_list_to_compact(y, f) # out

\* C24 witness: a leaf's list of three nibbles has been compacted
C24_Witness ==
    /\ op.kind = "nibble_list_to_compact"
    /\ op.k = <<1, 0, 15>>
    /\ op.v = TRUE
    /\ op.ret = <<49, 15>>

MaxOf(S) == CHOOSE x \in S : \A y \in S : y <= x

\* the calls of patricialize that the body of the call makes itself
NestedCalls(call) ==
    LET node == patricialize(call[1], call[2]) IN
    CASE node.kind = "ExtensionNode" ->
            {<<call[1], call[2] + Len(node.key_segment)>>}
      [] node.kind = "BranchNode" ->
            {<<Bucket(call[1], call[2], i), call[2] + 1>> : i \in 0..15}
      [] OTHER -> {}

\* every call nested in root() returns a node, takes its key slices within
\* the keys, and calls on with a greater level
CallsDescend ==
    \A call \in PatricializeCalls(prepare_trie(secured, data), 0) :
        /\ patricialize(call[1], call[2]).kind # "Aborted"
        /\ \A key \in DOMAIN call[1] : call[2] <= Len(key)
        /\ \A nested \in NestedCalls(call) : nested[2] > call[2]

\* the greatest level of a call nested in root()
DeepestLevel ==
    MaxOf({call[2] : call \in PatricializeCalls(prepare_trie(secured, data), 0)})

\* C25 as stated: root() terminates; every nested patricialize call has a
\* level strictly greater than its caller's, and no level exceeds the nibble
\* length (2 x byte length) of the longest canonical key, so every key slice
\* from the level onward is within bounds.
C25_LevelWithinCanonicalKey ==
    /\ CallsDescend
    /\ DeepestLevel <= MaxOf({0} \cup {2 * Len(get_bytes(key)) : key \in DOMAIN data})

\* C25, amended: the same with the bound taken over the keys of the map that
\* patricialize works on: the nibbles of the key bytes, or of their 32-byte
\* digest when the trie is secured.
C25_LevelWithinNibbleKey ==
    /\ CallsDescend
    /\ DeepestLevel <=
          MaxOf({0} \cup {Len(n) : n \in DOMAIN prepare_trie(secured, data)})

\* C25 witness: root() has run on a secured trie that holds the two keys whose
\* digests share their first byte; a call is made at level 3
C25_Witness ==
    /\ op.kind = "root"
    /\ secured
    /\ DOMAIN data = {<<2>>, <<9>>}
    /\ DeepestLevel >= 3

\* the fixed-width decoders: a destination of the type's size, one attempt
FixedWidthDecoders == {"Uint", "U64", "U256", "Bytes32", "Address", "Hash32", "Root"}

\* the decode call recorded is <T as Extended>::decode of the type ty
DecodedAs(ty) ==
    /\ pc = "decoded"
    /\ decoded.shape = Scalar(ty)
    /\ decoded.src \in {"written", "raw"}

\* C26: Bytes::decode first attempts the decode with an empty destination; a
\* DestTooSmall(n) outcome leaves the cursor unchanged, the destination is
\* resized to n and the decode retried once, so Bytes::decode never returns
\* DestTooSmall and on success holds exactly the n payload bytes.  The
\* fixed-width decoders return DestTooSmall to their caller without a retry.
C26_ResizeAndRetry ==
    /\ DecodedAs("Bytes") =>
          /\ decoded.tag # "DestTooSmall"
          /\ decode_to_bytes(decoded.input, 0, overflow_checks).tag = "DestTooSmall" =>
                decode_to_bytes(decoded.input, 0, overflow_checks).rest = decoded.input
          /\ decoded.tag = "Ok" =>
                /\ WellFormedString(decoded.input)
                /\ decoded.val = <<StringPayload(decoded.input)>>
    /\ \A ty \in FixedWidthDecoders :
          (/\ DecodedAs(ty)
           /\ WellFormedString(decoded.input)
           /\ StringPayloadLen(decoded.input) > FixedSize(ty)) =>
              /\ decoded.tag = "DestTooSmall"
              /\ decoded.n = StringPayloadLen(decoded.input)

\* C27: decoding a list into a fixed-arity target fails with a decoding error
\* when the list payload still holds bytes after the last declared field has
\* been decoded: a decode that succeeds has used up the whole payload.
C27_SurplusRejected ==
    (pc = "decoded" /\ decoded.shape.kind = "tuple" /\ decoded.tag = "Ok") =>
        Flatten(SplitItems(SequencePayload(decoded.input), Len(decoded.shape.tys)))
            = SequencePayload(decoded.input)

\* the input starts with a long-form prefix (base + 1 .. base + 8) and holds
\* the whole length field, and start index + declared length passes 2^64
EndIndexOverflows(input, base) ==
    /\ Len(input) >= 1
    /\ input[1] > base
    /\ input[1] <= base + 8
    /\ Len(input) >= 1 + (input[1] - base)
    /\ AddOverflows(1 + (input[1] - base), Slice(input, 1, 1 + (input[1] - base)))

\* C28: for every input decode_to_bytes and find_joined_encodings return Ok or
\* an RLPException and their index arithmetic stays in range: 1 + prefix -
\* 0xB7 and 1 + prefix - 0xF7 (the prefix 0xFF included) do not overflow 8
\* bits, and start index + declared length does not overflow the machine word
\* for a declared length of up to 8 bytes.
C28_DecodingTotal ==
    pc = "decoded" =>
        /\ decoded.shape = RawBytes =>
              /\ decoded.tag \in {"Ok", "DecodingError", "DestTooSmall"}
              /\ ~EndIndexOverflows(decoded.input, 183)
        /\ DecodedSequence =>
              /\ find_joined_encodings(decoded.input, overflow_checks).tag
                    \in {"Ok", "DecodingError"}
              /\ ~EndIndexOverflows(decoded.input, 247)

\* the unsigned integer types
UnsignedTypes == {"Uint", "U64", "U256"}

\* the bytes of the input that the decode call recorded has consumed
Consumed == Slice(decoded.input, 0, Len(decoded.input) - Len(cursor))

\* C29: for every input b that decodes successfully to an unsigned integer v
\* (Uint, U64 or U256), encode(v) reproduces b byte for byte; a payload that
\* starts with a zero byte is rejected.
C29_UniqueIntegerEncoding ==
    \A ty \in UnsignedTypes :
        (DecodedAs(ty) /\ decoded.tag = "Ok") =>
            scalar_encode(ty, decoded.val[1], <<>>) = Consumed

\* a path of the node tree: the steps taken from the node it starts at (16 for
\* an Extension, the bucket index below a Branch, 17 for arriving at a Leaf,
\* 18 for a Branch's inline value), the nibbles met along them, and the value
\* at its end
Path(route, nibbles, value) == [route |-> route, nibbles |-> nibbles, value |-> value]

\* a path of a child, continued upwards by one step with its nibbles
Extend(step, segment, path) ==
    Path(<<step>> \o path.route, segment \o path.nibbles, path.value)

\* the paths of the node tree of patricialize(obj, level), the children of a
\* node being the nodes of the calls it makes
RECURSIVE PathsFrom(_, _)
PathsFrom(obj, level) ==
    LET node == patricialize(obj, level) IN
    CASE node.kind = "LeafNode" -> {Path(<<17>>, node.rest_of_key, node.value)}
      [] node.kind = "ExtensionNode" ->
            {Extend(16, node.key_segment, path) :
                path \in PathsFrom(obj, level + Len(node.key_segment))}
      [] node.kind = "BranchNode" ->
            {Path(<<18>>, <<>>, node.value)} \cup
            UNION {{Extend(i, <<i>>, path) :
                        path \in PathsFrom(Bucket(obj, level, i), level + 1)} :
                   i \in 0..15}
      [] OTHER -> {}

\* C30: in the node tree built by patricialize(map, 0) every entry of the map
\* is reached by exactly one path from the top node: the Extension segments
\* and Branch bucket indices along it, followed by the Leaf's rest_of_key (or
\* nothing when the entry is a Branch's inline value), are the entry's nibble
\* key, and the value at its end is the entry's value.  In every call
\* patricialize(m, level) all keys of m agree on their first level nibbles.
C30_PathReconstruction ==
    LET obj == prepare_trie(secured, data) IN
    /\ \A key \in DOMAIN obj :
          Cardinality({path \in PathsFrom(obj, 0) :
                          path.nibbles = key /\ path.value = obj[key]}) = 1
    /\ \A call \in PatricializeCalls(obj, 0) :
          \A a \in DOMAIN call[1] : \A b \in DOMAIN call[1] :
              /\ Len(a) >= call[2]
              /\ Len(b) >= call[2]
              /\ Slice(a, 0, call[2]) = Slice(b, 0, call[2])

\* C30 witness: root() has run on an unsecured trie of three keys; one entry
\* is the inline value of a Branch two nibbles below the top, another a Leaf
\* below that Branch
C30_Witness ==
    /\ op.kind = "root"
    /\ ~secured
    /\ Cardinality(DOMAIN data) = 3
    /\ \E path \in PathsFrom(prepare_trie(secured, data), 0) :
          /\ path.route = <<0, 16, 18>>
          /\ path.nibbles = <<0, 1>>
          /\ path.value # <<128>>
    /\ \E path \in PathsFrom(prepare_trie(secured, data), 0) :
          /\ path.route = <<0, 16, 0, 17>>
          /\ path.nibbles = <<0, 1, 0, 2>>
=============================================================================
